---- MODULE Spec2Model ----
(***************************************************************************)
(* Process-graph builder of openeo/internal/graphbuilder.py:               *)
(* FlatGraphKeyGenerator, GraphBuilder (add_process, process,              *)
(* shallow_copy, from_process_graph, _merge_processes, combine, flatten).  *)
(*                                                                         *)
(* Python objects live in a heap: a process node is a heap cell, and a     *)
(* value that holds a node holds its address, so that two references to    *)
(* one node object share it, as they do in Python.  Strings that the code  *)
(* takes apart (process ids, keys) are sequences of one-character strings. *)
(***************************************************************************)
EXTENDS Integers, Sequences, FiniteSets, TLC

VARIABLES heap, builders, ret, key_generator

vars == <<heap, builders, ret, key_generator>>

(* ------------------------------ bounds -------------------------------- *)
\* live process nodes held by the builders
MaxNodes == 3
\* calls of generate on the stand-alone key generator
MaxGenerate == 5

\* the GraphBuilder variables of the caller
Builders == {1, 2}

(* --------------------------- strings ---------------------------------- *)
\* process ids the callers use; "a_b" and "ab" differ only by an underscore
PID_A_B == <<"a", "_", "b">>
PID_AB == <<"a", "b">>
PID_C == <<"c">>
ProcessIds == {PID_A_B, PID_AB, PID_C}

DigitChar == <<"0", "1", "2", "3", "4", "5", "6", "7", "8", "9">>

\* str.format of a non-negative integer
RECURSIVE IntToStr(_)
IntToStr(n) ==
    IF n < 10 THEN <<DigitChar[n + 1]>>
    ELSE IntToStr(n \div 10) \o <<DigitChar[(n % 10) + 1]>>

\* process_id.replace('_', '')
RemoveUnderscores(s) == SelectSeq(s, LAMBDA c : c # "_")

\* code points of the characters in use, for Python's string comparison
Ord(c) ==
    CASE c = "_" -> 95
      [] c = "a" -> 97
      [] c = "b" -> 98
      [] c = "c" -> 99
      [] OTHER -> 47 + (CHOOSE i \in 1..10 : DigitChar[i] = c)

\* s < t for Python strings
RECURSIVE StrLess(_, _)
StrLess(s, t) ==
    IF t = <<>> THEN FALSE
    ELSE IF s = <<>> THEN TRUE
    ELSE IF Ord(Head(s)) # Ord(Head(t)) THEN Ord(Head(s)) < Ord(Head(t))
    ELSE StrLess(Tail(s), Tail(t))

(* ----------------------- FlatGraphKeyGenerator ------------------------ *)
EmptyMap == [x \in {} |-> 0]

\* self._counters = collections.defaultdict(int)
CounterOf(counters, process_id) ==
    IF process_id \in DOMAIN counters THEN counters[process_id] ELSE 0

\* the key format of generate: "{p}{c}"
FormatKey(process_id, c) == RemoveUnderscores(process_id) \o IntToStr(c)

\* generate(process_id): the counters after the call and the key returned
generate(counters, process_id) ==
    LET c == CounterOf(counters, process_id) + 1
    IN  [counters |-> (process_id :> c) @@ counters,
         key |-> FormatKey(process_id, c)]

(* ------------------------------ values -------------------------------- *)
\* what a dict slot that may hold a node can hold
NodeP(n) == [k |-> "node", n |-> n]
KeyP(key) == [k |-> "key", key |-> key]
FlatP(g) == [k |-> "flat", g |-> g]
NoneP == [k |-> "none"]
BuiltinIdP == [k |-> "builtin_id"]
UnsetP == [k |-> "unset"]

\* argument values
Lit(s) == [t |-> "lit", v |-> s]
Ref(p) == [t |-> "ref", from_node |-> p]
List(xs) == [t |-> "list", xs |-> xs]
Callback(p) == [t |-> "callback", callback |-> p]
Embedded(p) == [t |-> "embedded", node |-> p]

Arg(name, value) == [name |-> name, value |-> value]

RECURSIVE ConcatAll(_)
ConcatAll(ss) == IF ss = <<>> THEN <<>> ELSE Head(ss) \o ConcatAll(Tail(ss))

Range(s) == {s[i] : i \in DOMAIN s}

PtrNodes(p) == IF p.k = "node" THEN <<p.n>> ELSE <<>>

\* the node objects a value holds, in order
ElemNodes(e) == IF e.t = "ref" THEN PtrNodes(e.from_node) ELSE <<>>
ValueNodes(v) ==
    CASE v.t = "ref" -> PtrNodes(v.from_node)
      [] v.t = "callback" -> PtrNodes(v.callback)
      [] v.t = "embedded" -> PtrNodes(v.node)
      [] v.t = "list" -> ConcatAll([j \in DOMAIN v.xs |-> ElemNodes(v.xs[j])])
      [] OTHER -> <<>>
ArgsNodes(args) == ConcatAll([i \in DOMAIN args |-> ValueNodes(args[i].value)])

\* the same value with every node address n replaced by f[n]
RenPtr(p, f) == IF p.k = "node" THEN NodeP(f[p.n]) ELSE p
RenElem(e, f) == IF e.t = "ref" THEN Ref(RenPtr(e.from_node, f)) ELSE e
RenValue(v, f) ==
    CASE v.t = "ref" -> Ref(RenPtr(v.from_node, f))
      [] v.t = "callback" -> Callback(RenPtr(v.callback, f))
      [] v.t = "embedded" -> Embedded(RenPtr(v.node, f))
      [] v.t = "list" -> List([j \in DOMAIN v.xs |-> RenElem(v.xs[j], f)])
      [] OTHER -> v
RenArgs(args, f) ==
    [i \in DOMAIN args |-> Arg(args[i].name, RenValue(args[i].value, f))]
RenNode(node, f) ==
    [process_id |-> node.process_id,
     arguments |-> RenArgs(node.arguments, f),
     result |-> node.result]

\* the nodes reachable from the nodes of todo, in depth-first pre-order
RECURSIVE Dfs(_, _, _)
Dfs(h, todo, acc) ==
    IF todo = <<>> THEN acc
    ELSE LET n == Head(todo)
         IN  IF n \in Range(acc) THEN Dfs(h, Tail(todo), acc)
             ELSE Dfs(h, ArgsNodes(h[n].arguments) \o Tail(todo), Append(acc, n))

Reach(h, p) == Range(Dfs(h, PtrNodes(p), <<>>))

MaxAddr(h) == IF DOMAIN h = {} THEN 0 ELSE CHOOSE m \in DOMAIN h : \A n \in DOMAIN h : n <= m

IndexOf(s, x) == CHOOSE i \in DOMAIN s : s[i] = x

(* ------------------------------ copying ------------------------------- *)
\* DeepCopy without the copy: the caller gets the very same objects
AliasInsteadOfCopy(h, p) == [h |-> h, p |-> p]

\* copy.deepcopy(p) in heap h: every node reachable from p gets a fresh cell,
\* and two paths to one node lead to one copy (deepcopy's memo)
DeepCopy(h, p) ==
    IF p.k # "node" THEN [h |-> h, p |-> p]
    ELSE LET R == Reach(h, p)
             base == MaxAddr(h)
             f == [n \in R |-> n + base]
         IN  [h |-> [m \in DOMAIN h \cup {n + base : n \in R} |->
                        IF m \in DOMAIN h THEN h[m] ELSE RenNode(h[m - base], f)],
              p |-> NodeP(p.n + base)]

\* GraphBuilder.from_process_graph(graph): the new builder's result_node
from_process_graph(h, graph) == DeepCopy(h, graph)

(* ------------------------------ flatten ------------------------------- *)
ErrorV == [k |-> "error"]

\* flat_graph[node_id] = {'process_id': process_id, 'arguments': arguments}:
\* the entry keeps the node's own arguments dict, so it is stored as the
\* node's address and read when flatten returns
leaveProcess(st, n) ==
    LET g == generate(st.counters, st.h[n].process_id)
    IN  [st EXCEPT !.counters = g.counters,
                   !.last_node_id = KeyP(g.key),
                   !.flat_graph = (g.key :> n) @@ st.flat_graph]

\* arrayElementDone(node), node the j-th element of the i-th argument of n
arrayElementDone(st, n, i, j) ==
    IF st.h[n].arguments[i].value.xs[j].t = "ref"
    THEN [st EXCEPT !.h[n].arguments[i].value.xs[j] = Ref(st.last_node_id)]
    ELSE st

\* the structure behind a slot, by value: every node address replaced by
\* the node it names (what == compares in Python)
RECURSIVE UnfoldPtr(_, _), UnfoldArgs(_, _)
UnfoldPtr(h, p) ==
    IF p.k = "node"
    THEN [k |-> "tree",
          process_id |-> h[p.n].process_id,
          arguments |-> UnfoldArgs(h, h[p.n].arguments),
          result |-> h[p.n].result]
    ELSE p
UnfoldArgs(h, args) ==
    [i \in DOMAIN args |->
        LET v == args[i].value
        IN  Arg(args[i].name,
                CASE v.t = "ref" -> Ref(UnfoldPtr(h, v.from_node))
                  [] v.t = "callback" -> Callback(UnfoldPtr(h, v.callback))
                  [] v.t = "embedded" -> Embedded(UnfoldPtr(h, v.node))
                  [] v.t = "list" ->
                       List([j \in DOMAIN v.xs |->
                               IF v.xs[j].t = "ref"
                               THEN Ref(UnfoldPtr(h, v.xs[j].from_node))
                               ELSE v.xs[j]])
                  [] OTHER -> v)]

\* MarkResult when the entries are the nested nodes themselves, which still
\* carry the result values given to add_process
MarkResultOnNestedNodes(st) ==
    IF st.last_node_id.k # "key" THEN ErrorV
    ELSE FlatP([key \in DOMAIN st.flat_graph |->
                  [process_id |-> st.h[st.flat_graph[key]].process_id,
                   arguments |-> UnfoldArgs(st.h, st.h[st.flat_graph[key]].arguments),
                   result |-> IF key = st.last_node_id.key THEN "True"
                              ELSE st.h[st.flat_graph[key]].result]])

\* MarkResult that marks nothing when no process was left, and returns
MarkResultIfAny(st) ==
    FlatP([key \in DOMAIN st.flat_graph |->
             [process_id |-> st.h[st.flat_graph[key]].process_id,
              arguments |-> UnfoldArgs(st.h, st.h[st.flat_graph[key]].arguments),
              result |-> IF st.last_node_id = KeyP(key) THEN "True" ELSE "absent"]])

\* flat_graph[flattener.last_node_id]['result'] = True; return flat_graph
\* (a KeyError when no process was left, so that last_node_id is None)
MarkResult(st) ==
    IF st.last_node_id.k # "key" THEN ErrorV
    ELSE FlatP([key \in DOMAIN st.flat_graph |->
                  [process_id |-> st.h[st.flat_graph[key]].process_id,
                   arguments |-> UnfoldArgs(st.h, st.h[st.flat_graph[key]].arguments),
                   result |-> IF key = st.last_node_id.key THEN "True" ELSE "absent"]])

RECURSIVE flatten(_, _, _), accept(_, _), VisitArguments(_, _, _),
          VisitElements(_, _, _, _), leaveArgument(_, _, _)

\* leaveArgument(argument_id, node), node the value of the i-th argument of n
leaveArgument(st, n, i) ==
    LET v == st.h[n].arguments[i].value
    IN  IF v.t = "ref"
        THEN [st EXCEPT !.h[n].arguments[i].value = Ref(st.last_node_id)]
        ELSE IF v.t = "callback"
        THEN LET b == from_process_graph(st.h, v.callback)
                 r == flatten(b.h, b.p, st.counters)
             IN  IF r.value.k = "error"
                 THEN [st EXCEPT !.error = TRUE]
                 ELSE [st EXCEPT !.h = [r.h EXCEPT ![n].arguments[i].value =
                                                       Callback(r.value)],
                                 !.counters = r.counters]
        ELSE st

\* the traversal of one sequence-valued argument, from element j on
VisitElements(st, n, i, j) ==
    IF st.error \/ j > Len(st.h[n].arguments[i].value.xs) THEN st
    ELSE LET e == st.h[n].arguments[i].value.xs[j]
             s1 == IF e.t = "ref" THEN accept(st, e.from_node) ELSE st
         IN  IF s1.error THEN s1
             ELSE VisitElements(IF e.t = "lit" THEN s1
                                ELSE arrayElementDone(s1, n, i, j),
                                n, i, j + 1)

\* the traversal of the arguments of n, from the i-th on
VisitArguments(st, n, i) ==
    IF st.error \/ i > Len(st.h[n].arguments) THEN st
    ELSE LET v == st.h[n].arguments[i].value
             s1 == CASE v.t = "list" -> VisitElements(st, n, i, 1)
                     [] v.t = "ref" -> accept(st, v.from_node)
                     [] v.t = "embedded" -> accept(st, v.node)
                     [] OTHER -> st
             s2 == IF s1.error \/ v.t \in {"list", "lit"} THEN s1
                   ELSE leaveArgument(s1, n, i)
         IN  VisitArguments(s2, n, i + 1)

\* ProcessGraphVisitor.accept(node): a process node has its arguments
\* visited in their order and is then left; anything else is no process
accept(st, p) ==
    IF st.error \/ p.k # "node" THEN st
    ELSE LET s1 == VisitArguments(st, p.n, 1)
         IN  IF s1.error THEN s1 ELSE leaveProcess(s1, p.n)

\* GraphBuilder.flatten(key_generator) of a builder whose result_node is
\* result_node; counters are the key generator's
flatten(h, result_node, counters) ==
    LET c == DeepCopy(h, result_node)
        st == accept([h |-> c.h, flat_graph |-> EmptyMap, counters |-> counters,
                      last_node_id |-> NoneP, error |-> FALSE], c.p)
    IN  [h |-> st.h, counters |-> st.counters,
         value |-> IF st.error THEN ErrorV ELSE MarkResult(st)]

(* --------------------------- GraphBuilder ----------------------------- *)
HasArg(args, name) == \E i \in DOMAIN args : args[i].name = name

\* the builtin function that process returns (return id)
ProcessReturn == BuiltinIdP

\* process(process_id, args) on a builder whose result_node is result_node
process(h, result_node, process_id, args) ==
    IF HasArg(args, "from_node") /\ result_node.k = "unset"
    THEN [error |-> TRUE, h |-> h, p |-> result_node, id |-> ProcessReturn]
    ELSE LET n == MaxAddr(h) + 1
             new_args == [i \in DOMAIN args |->
                            IF args[i].name = "from_node"
                            THEN Arg("from_node", Embedded(result_node))
                            ELSE args[i]]
             new_process == [process_id |-> process_id,
                             arguments |-> new_args,
                             result |-> "absent"]
         IN  [error |-> FALSE, h |-> (n :> new_process) @@ h, p |-> NodeP(n),
              id |-> ProcessReturn]

\* add_process(process_id, result, **args); result is "None", "True" or "False"
add_process(h, result_node, process_id, result, args) ==
    LET r == process(h, result_node, process_id, args)
    IN  IF r.error \/ result = "None" THEN r
        ELSE [r EXCEPT !.h[r.p.n].result = result]

\* shallow_copy(): the copy's result_node
shallow_copy(h, result_node) == DeepCopy(h, result_node)

\* combine(operator, first, second, arg_name): the merged builder's result_node
combine(h, operator, first, second, arg_name) ==
    add_process(h, UnsetP, operator, "True",
                <<Arg(arg_name, List(<<Ref(first), Ref(second)>>))>>)

\* sorted(keys): ascending in Python's string order
RECURSIVE Sorted(_)
Sorted(S) ==
    IF S = {} THEN <<>>
    ELSE LET m == CHOOSE x \in S : \A y \in S \ {x} : StrLess(x, y)
         IN  <<m>> \o Sorted(S \ {m})

\* _extract_node_references(arguments): the places of the references, each
\* <<i, 0>> for the i-th argument or <<i, j>> for its j-th element
ElementRefs(v, i) ==
    IF v.t # "list" THEN <<>>
    ELSE ConcatAll([j \in DOMAIN v.xs |->
                      IF v.xs[j].t = "ref" THEN << <<i, j>> >> ELSE <<>>])
_extract_node_references(arguments) ==
    ConcatAll([i \in DOMAIN arguments |->
                 IF arguments[i].value.t = "ref" THEN << <<i, 0>> >>
                 ELSE ElementRefs(arguments[i].value, i)])

RefAt(args, place) ==
    IF place[2] = 0 THEN args[place[1]].value
    ELSE args[place[1]].value.xs[place[2]]

\* RewriteRef as node_ref['from_node'] = key_map.get(old_node_id)
RewriteRefWithGet(key_map, node_ref) ==
    IF node_ref.from_node.k = "key" /\ node_ref.from_node.key \in DOMAIN key_map
    THEN Ref(key_map[node_ref.from_node.key])
    ELSE Ref(NoneP)

\* node_ref['from_node'] = key_map[old_node_id], when old_node_id is in key_map
RewriteRef(key_map, node_ref) ==
    IF node_ref.from_node.k = "key" /\ node_ref.from_node.key \in DOMAIN key_map
    THEN Ref(key_map[node_ref.from_node.key])
    ELSE node_ref

\* the second loop of _merge_processes, over the references of node n
RECURSIVE RewriteRefs(_, _, _, _)
RewriteRefs(h, n, places, key_map) ==
    IF places = <<>> THEN h
    ELSE LET place == Head(places)
             new == RewriteRef(key_map, RefAt(h[n].arguments, place))
             h1 == IF place[2] = 0
                   THEN [h EXCEPT ![n].arguments[place[1]].value = new]
                   ELSE [h EXCEPT ![n].arguments[place[1]].value.xs[place[2]] = new]
         IN  RewriteRefs(h1, n, Tail(places), key_map)

RECURSIVE RewriteNodes(_, _, _)
RewriteNodes(h, added, key_map) ==
    IF added = <<>> THEN h
    ELSE RewriteNodes(RewriteRefs(h, Head(added),
                                  _extract_node_references(h[Head(added)].arguments),
                                  key_map),
                      Tail(added), key_map)

\* the first loop of _merge_processes, over the keys still to visit
RECURSIVE MergeLoop(_, _, _)
MergeLoop(m, processes, keys) ==
    IF keys = <<>> \/ m.error THEN m
    ELSE LET key == Head(keys)
             r == process(m.h, m.p, processes[key].process_id, processes[key].arguments)
         IN  IF r.error THEN [m EXCEPT !.error = TRUE]
             ELSE MergeLoop([error |-> FALSE, h |-> r.h, p |-> r.p,
                             key_map |-> IF r.id # KeyP(key)
                                         THEN (key :> r.id) @@ m.key_map
                                         ELSE m.key_map,
                             added |-> Append(m.added, r.p.n),
                             visited |-> Append(m.visited, key)],
                            processes, Tail(keys))

\* _merge_processes(processes, return_key_map=True)
_merge_processes(h, result_node, processes) ==
    LET m == MergeLoop([error |-> FALSE, h |-> h, p |-> result_node,
                        key_map |-> EmptyMap, added |-> <<>>, visited |-> <<>>],
                       processes, Sorted(DOMAIN processes))
    IN  IF m.error THEN m
        ELSE [m EXCEPT !.h = RewriteNodes(m.h, m.added, m.key_map)]

(* ------------------------- the caller's heap -------------------------- *)
\* nodes no builder reaches are freed, and the rest are addressed in the
\* order a walk from the builders meets them
Collect(h, bs) ==
    LET order == Dfs(h, ConcatAll([b \in Builders |-> PtrNodes(bs[b])]), <<>>)
        f == [n \in Range(order) |-> IndexOf(order, n)]
    IN  [heap |-> [i \in 1..Len(order) |-> RenNode(h[order[i]], f)],
         builders |-> [b \in Builders |-> RenPtr(bs[b], f)]]

Held == {builders[b] : b \in {x \in Builders : builders[x].k # "unset"}}

\* the keyword arguments callers pass to add_process
ArgsLoad == <<Arg("id", Lit("S2"))>>
ArgsFilter(p) == <<Arg("data", Ref(p)), Arg("bands", List(<<Lit("B02")>>))>>
ArgsReduce(p, c) == <<Arg("data", Ref(p)), Arg("reducer", Callback(c))>>
ArgsFromNode == <<Arg("from_node", Lit("x"))>>

Call(process_id, args) == [process_id |-> process_id, args |-> args]

\* the add_process calls a caller makes on builder b: a load starts a graph;
\* the others take the builder's own result_node as their input, and a
\* reducer's callback is the graph of any builder
CallerCalls(b) ==
    {Call(PID_A_B, ArgsLoad), Call(PID_AB, ArgsLoad)}
        \cup IF builders[b].k = "unset" THEN {}
             ELSE {Call(PID_AB, ArgsFilter(builders[b])), Call(PID_C, ArgsFromNode)}
                      \cup {Call(PID_C, ArgsReduce(builders[b], c)) : c \in Held}

Returned(op, value) == [op |-> op, value |-> value]

(* ------------------------------ actions ------------------------------- *)
Init ==
    /\ heap = <<>>
    /\ builders = [b \in Builders |-> UnsetP]
    /\ ret = Returned("none", NoneP)
    /\ key_generator = [counters |-> EmptyMap, keys |-> <<>>]

Install(h, bs) ==
    LET c == Collect(h, bs)
    IN  /\ Len(c.heap) <= MaxNodes
        /\ heap' = c.heap
        /\ builders' = c.builders

\* builder b: add_process(process_id, result=result, **args)
AddProcess(b, process_id, result, args) ==
    LET r == add_process(heap, builders[b], process_id, result, args)
    IN  /\ ~r.error
        /\ Install(r.h, [builders EXCEPT ![b] = r.p])
        /\ ret' = Returned("add_process", r.id)
        /\ UNCHANGED key_generator

\* builder t = GraphBuilder.combine(operator, first, second)
Combine(t, operator, first, second) ==
    /\ builders[first].k # "unset"
    /\ builders[second].k # "unset"
    /\ LET r == combine(heap, operator, builders[first], builders[second], "data")
       IN  Install(r.h, [builders EXCEPT ![t] = r.p])
    /\ ret' = Returned("combine", NoneP)
    /\ UNCHANGED key_generator

\* builder t = builder b .shallow_copy()
ShallowCopy(t, b) ==
    /\ builders[b].k # "unset"
    /\ LET r == shallow_copy(heap, builders[b])
       IN  Install(r.h, [builders EXCEPT ![t] = r.p])
    /\ ret' = Returned("shallow_copy", NoneP)
    /\ UNCHANGED key_generator

\* builder t = GraphBuilder.from_process_graph(graph)
FromProcessGraph(t, graph) ==
    /\ LET r == from_process_graph(heap, graph)
       IN  Install(r.h, [builders EXCEPT ![t] = r.p])
    /\ ret' = Returned("from_process_graph", NoneP)
    /\ UNCHANGED key_generator

\* builder b .flatten(), with the default key generator
Flatten(b) ==
    /\ builders[b].k # "unset"
    /\ LET r == flatten(heap, builders[b], EmptyMap)
       IN  /\ heap' = [n \in DOMAIN heap |-> r.h[n]]
           /\ ret' = [op |-> "flatten", value |-> r.value, b |-> b]
    /\ UNCHANGED <<builders, key_generator>>

\* a flat graph a caller holds from elsewhere: its second node refers to its
\* first, and to a node "c7" that is not part of it
ForeignGraph ==
    (<<"a", "b", "2">> :>
        [process_id |-> PID_AB,
         arguments |-> <<Arg("data", Ref(KeyP(<<"a", "b", "1">>))),
                         Arg("more", List(<<Ref(KeyP(<<"c", "7">>)), Lit("3"),
                                            Ref(KeyP(<<"a", "b", "1">>))>>))>>,
         result |-> "True"])
    @@ (<<"a", "b", "1">> :>
        [process_id |-> PID_A_B, arguments |-> ArgsLoad, result |-> "absent"])

\* builder b ._merge_processes(processes, return_key_map=True)
Merge(b, processes) ==
    /\ LET m == _merge_processes(heap, builders[b], processes)
       IN  /\ ~m.error
           /\ Install(m.h, [builders EXCEPT ![b] = m.p])
           /\ ret' = [op |-> "_merge_processes", value |-> m.key_map,
                      processes |-> processes, visited |-> m.visited,
                      added |-> [i \in DOMAIN m.added |->
                                   UnfoldArgs(m.h, m.h[m.added[i]].arguments)]]
    /\ UNCHANGED key_generator

\* key_generator.generate(process_id) on the stand-alone generator
Generate(process_id) ==
    /\ Len(key_generator.keys) < MaxGenerate
    /\ LET g == generate(key_generator.counters, process_id)
       IN  key_generator' = [counters |-> g.counters,
                             keys |-> Append(key_generator.keys, g.key)]
    /\ UNCHANGED <<heap, builders, ret>>

Next ==
    \/ \E b \in Builders, result \in {"None", "True"} : \E c \in CallerCalls(b) :
          AddProcess(b, c.process_id, result, c.args)
    \/ \E t, first, second \in Builders : Combine(t, PID_C, first, second)
    \/ \E t, b \in Builders : ShallowCopy(t, b)
    \/ \E b \in Builders : Flatten(b)

Spec == Init /\ [][Next]_vars

\* callers who build as above and then seed builders from graphs they hold,
\* and flatten what they seeded
NextSeed ==
    \/ (\A b \in Builders : builders[b].k # "flat") /\ Next
    \/ \E t \in Builders : \E graph \in Held : FromProcessGraph(t, graph)
    \/ \E t \in Builders :
          /\ ret.op = "flatten"
          /\ ret.value.k = "flat"
          /\ FromProcessGraph(t, ret.value)
    \/ \E b \in Builders : builders[b].k = "flat" /\ Flatten(b)

SpecSeed == Init /\ [][NextSeed]_vars

\* callers who build as above and then merge flat graphs into their builders
NextMerge ==
    \/ ret.op # "_merge_processes" /\ Next
    \/ \E b \in Builders : Merge(b, ForeignGraph)
    \/ \E b \in Builders :
          /\ ret.op = "flatten"
          /\ ret.value.k = "flat"
          /\ Merge(b, ret.value.g)

SpecMerge == Init /\ [][NextMerge]_vars

NextKeys == \E process_id \in ProcessIds : Generate(process_id)

SpecKeys == Init /\ [][NextKeys]_vars

(* =============================== claims =============================== *)
\* the last call was a flatten that returned a flat graph
Flattened == ret.op = "flatten" /\ ret.value.k = "flat"
\* ... of a builder holding a nested graph
FlattenedNested == Flattened /\ builders[ret.b].k = "node"

ArgNames(args) == [i \in DOMAIN args |-> args[i].name]

\* the references of an argument list, direct or one level inside a list
RefsOf(args) ==
    {args[i].value : i \in {x \in DOMAIN args : args[x].value.t = "ref"}}
        \cup UNION {{args[i].value.xs[j] :
                        j \in {y \in DOMAIN args[i].value.xs :
                                  args[i].value.xs[y].t = "ref"}} :
                    i \in {x \in DOMAIN args : args[x].value.t = "list"}}

\* the callback flat maps among the arguments
CallbacksOf(args) ==
    {args[i].value.callback.g :
        i \in {x \in DOMAIN args : /\ args[x].value.t = "callback"
                                    /\ args[x].value.callback.k = "flat"}}

\* the node occurrences of the nested graph behind p: a node counts once for
\* every path that leads to it
RECURSIVE Occurrences(_, _)
Occurrences(h, p) ==
    IF p.k # "node" THEN 0
    ELSE LET sub == ArgsNodes(h[p.n].arguments)
             count[i \in 0..Len(sub)] ==
                 IF i = 0 THEN 0 ELSE count[i - 1] + Occurrences(h, NodeP(sub[i]))
         IN  1 + count[Len(sub)]

\* every key of a flat map and of the callback maps nested in it
RECURSIVE AllKeys(_)
AllKeys(g) ==
    LET keys == Sorted(DOMAIN g)
        inner(key) ==
            LET cbs == CallbacksOf(g[key].arguments)
                one == IF cbs = {} THEN <<>> ELSE AllKeys(CHOOSE c \in cbs : TRUE)
            IN  one
    IN  keys \o ConcatAll([i \in DOMAIN keys |-> inner(keys[i])])

NoDuplicates(s) == \A i, j \in DOMAIN s : i # j => s[i] # s[j]

C2_KeysDistinct == NoDuplicates(key_generator.keys)

(* C3 *)
\* C3: the keys of the parent map and of all callback maps of one flatten
\* are pairwise distinct, and there are as many entries as node occurrences
\* in the nested graph.
C3_KeysDistinctAcrossMaps ==
    FlattenedNested =>
        /\ NoDuplicates(AllKeys(ret.value.g))
        /\ Len(AllKeys(ret.value.g)) = Occurrences(heap, builders[ret.b])

(* C4 *)
RECURSIVE RefsResolve(_)
RefsResolve(g) ==
    \A key \in DOMAIN g :
        /\ \A r \in RefsOf(g[key].arguments) :
              r.from_node.k = "key" /\ r.from_node.key \in DOMAIN g
        /\ \A c \in CallbacksOf(g[key].arguments) : RefsResolve(c)

\* C4: every reference of a flat graph holds a key of the map it is in
\* (of the callback's own map inside a callback), never null.
C4_ReferencesResolve == FlattenedNested => RefsResolve(ret.value.g)

(* C5 *)
\* the nodes of the linear chain that ends in node n, in the order they were
\* added, or <<>> when n does not end a linear chain: every argument of a
\* chain node is a literal or a list of literals, but for one reference to
\* the node added before (none in the first)
RECURSIVE ChainOf(_, _)
ChainOf(h, n) ==
    LET args == h[n].arguments
        refs == {i \in DOMAIN args : args[i].value.t = "ref"}
        plain == \A i \in DOMAIN args \ refs :
                    \/ args[i].value.t = "lit"
                    \/ /\ args[i].value.t = "list"
                       /\ \A j \in DOMAIN args[i].value.xs : args[i].value.xs[j].t = "lit"
    IN  IF ~plain \/ Cardinality(refs) > 1 THEN <<>>
        ELSE IF refs = {} THEN <<n>>
        ELSE LET p == args[CHOOSE i \in refs : TRUE].value.from_node
             IN  IF p.k # "node" \/ ChainOf(h, p.n) = <<>> THEN <<>>
                 ELSE Append(ChainOf(h, p.n), n)

\* normalize(operation name) + occurrence count of that name so far
ChainKey(h, chain, i) ==
    FormatKey(h[chain[i]].process_id,
              Cardinality({j \in 1..i : h[chain[j]].process_id = h[chain[i]].process_id}))

ChainEntry(h, chain, i) ==
    [process_id |-> h[chain[i]].process_id,
     arguments |-> [a \in DOMAIN h[chain[i]].arguments |->
                      IF h[chain[i]].arguments[a].value.t = "ref"
                      THEN Arg(h[chain[i]].arguments[a].name,
                               Ref(KeyP(ChainKey(h, chain, i - 1))))
                      ELSE h[chain[i]].arguments[a]],
     result |-> IF i = Len(chain) THEN "True" ELSE "absent"]

\* C5: a linear chain of n add_process calls whose last call set result=true
\* flattens to exactly n entries; the i-th has the key normalize(name) +
\* occurrence count, its reference holds the key of entry i-1, its other
\* arguments are unchanged, and only the n-th is marked result.
C5_ChainFlattens ==
    (/\ ret.op = "flatten"
     /\ builders[ret.b].k = "node"
     /\ ChainOf(heap, builders[ret.b].n) # <<>>
     /\ heap[builders[ret.b].n].result = "True") =>
        LET chain == ChainOf(heap, builders[ret.b].n)
        IN  /\ ret.value.k = "flat"
            /\ Cardinality(DOMAIN ret.value.g) = Len(chain)
            /\ \A i \in DOMAIN chain :
                  /\ ChainKey(heap, chain, i) \in DOMAIN ret.value.g
                  /\ ret.value.g[ChainKey(heap, chain, i)] = ChainEntry(heap, chain, i)

(* C6 *)
\* node n is what combine(operator, A, B) makes
IsCombined(h, n) ==
    /\ Len(h[n].arguments) = 1
    /\ h[n].arguments[1].name = "data"
    /\ h[n].arguments[1].value.t = "list"
    /\ Len(h[n].arguments[1].value.xs) = 2
    /\ \A j \in 1..2 : /\ h[n].arguments[1].value.xs[j].t = "ref"
                       /\ h[n].arguments[1].value.xs[j].from_node.k = "node"
    /\ h[n].result = "True"

\* C6: flatten(combine(op, A, B)) has one entry per node of A, one per node
\* of B and one more entry, the only one marked result, with process_id op
\* and data = [reference to the key of A's root, reference to the key of
\* B's root].
C6_CombineFlattens ==
    (/\ ret.op = "flatten"
     /\ builders[ret.b].k = "node"
     /\ IsCombined(heap, builders[ret.b].n)) =>
        LET root == heap[builders[ret.b].n]
            first == root.arguments[1].value.xs[1].from_node
            second == root.arguments[1].value.xs[2].from_node
        IN  /\ ret.value.k = "flat"
            /\ Len(AllKeys(ret.value.g))
                  = Occurrences(heap, first) + Occurrences(heap, second) + 1
            /\ \E op \in DOMAIN ret.value.g :
                  /\ {key \in DOMAIN ret.value.g : ret.value.g[key].result # "absent"} = {op}
                  /\ ret.value.g[op].process_id = root.process_id
                  /\ \E ka, kb \in DOMAIN ret.value.g \ {op} :
                        /\ ka # kb
                        /\ ret.value.g[op].arguments
                              = <<Arg("data", List(<<Ref(KeyP(ka)), Ref(KeyP(kb))>>))>>
                        /\ ret.value.g[ka].process_id = heap[first.n].process_id
                        /\ ret.value.g[kb].process_id = heap[second.n].process_id

(* C7 *)
\* two flat graphs are the same up to a renaming f of the keys
RECURSIVE SameUpToKeys(_, _)
SameValue(v, w, f) ==
    /\ v.t = w.t
    /\ CASE v.t = "ref" ->
              IF v.from_node.k = "key" /\ v.from_node.key \in DOMAIN f
              THEN w.from_node = KeyP(f[v.from_node.key])
              ELSE w.from_node = v.from_node
         [] v.t = "callback" ->
              /\ v.callback.k = w.callback.k
              /\ IF v.callback.k = "flat" THEN SameUpToKeys(v.callback.g, w.callback.g)
                 ELSE v = w
         [] OTHER -> v = w
SameArgs(a, b, f) ==
    /\ ArgNames(a) = ArgNames(b)
    /\ \A i \in DOMAIN a :
          IF a[i].value.t = "list" /\ b[i].value.t = "list"
          THEN /\ Len(a[i].value.xs) = Len(b[i].value.xs)
               /\ \A j \in DOMAIN a[i].value.xs :
                     SameValue(a[i].value.xs[j], b[i].value.xs[j], f)
          ELSE SameValue(a[i].value, b[i].value, f)
SameUpToKeys(g1, g2) ==
    /\ Cardinality(DOMAIN g1) = Cardinality(DOMAIN g2)
    /\ \E f \in [DOMAIN g1 -> DOMAIN g2] :
          /\ \A x, y \in DOMAIN g1 : x # y => f[x] # f[y]
          /\ \A key \in DOMAIN g1 :
                /\ g1[key].process_id = g2[f[key]].process_id
                /\ g1[key].result = g2[f[key]].result
                /\ SameArgs(g1[key].arguments, g2[f[key]].arguments, f)

\* the last call flattened a builder seeded with a flat graph
Reflattened == ret.op = "flatten" /\ builders[ret.b].k = "flat"

\* C7 as stated: from_process_graph(flatten(G)).flatten() completes and
\* returns flatten(G) up to a renaming of the keys.
C7_RoundTrip ==
    Reflattened =>
        /\ ret.value.k = "flat"
        /\ SameUpToKeys(builders[ret.b].g, ret.value.g)

\* C7 as amended: from_process_graph(flatten(G)).flatten() never returns a
\* flat graph: the builder holds the flat map, which is no process node, no
\* entry is made and marking the result fails.
C7_ReflattenFails == Reflattened => ret.value.k = "error"

\* a flat graph of two or more entries was seeded and flattened again
C7_Witness == Reflattened /\ Cardinality(DOMAIN builders[ret.b].g) >= 2

(* C8 *)
\* what the merge left where the source had the argument value o
MergedAs(o, v, key_map) ==
    IF o.t = "ref"
    THEN IF o.from_node.k = "key" /\ o.from_node.key \in DOMAIN key_map
         THEN v = Ref(key_map[o.from_node.key])
         ELSE v = o
    ELSE v = o

Structure(h, bs, b) == UnfoldPtr(h, bs[b])

\* C9: a flatten leaves every builder's nested graph as it was, and returns
\* what the flatten before it returned for the same builder; a shallow_copy
\* changes no graph but that of the variable it is assigned to, which gets
\* the structure of the copied builder.
C9_FlattenAndCopyKeepGraph ==
    [][/\ ret'.op = "flatten" =>
            /\ heap' = heap
            /\ builders' = builders
            /\ (ret.op = "flatten" /\ ret.b = ret'.b) => ret'.value = ret.value
       /\ ret'.op = "shallow_copy" =>
            /\ \A b \in Builders :
                  \/ Structure(heap', builders', b) = Structure(heap, builders, b)
                  \/ \E x \in Builders :
                        /\ builders[x].k # "unset"
                        /\ Structure(heap', builders', b) = Structure(heap, builders, x)
            /\ Cardinality({b \in Builders :
                               Structure(heap', builders', b)
                                   # Structure(heap, builders, b)}) <= 1]_vars

\* a graph with a reference and a callback was flattened
C9_Witness ==
    /\ FlattenedNested
    /\ \E key \in DOMAIN ret.value.g :
          /\ RefsOf(ret.value.g[key].arguments) # {}
          /\ CallbacksOf(ret.value.g[key].arguments) # {}
    /\ RefsOf(heap[builders[ret.b].n].arguments) # {}
    /\ \A r \in RefsOf(heap[builders[ret.b].n].arguments) : r.from_node.k = "node"

(* C10 *)
\* the process ids of the nested graph behind p
PidsOf(h, p) == {h[n].process_id : n \in Reach(h, p)}

\* no two of them differ only by underscores
NamesApart(h, p) ==
    \A x, y \in PidsOf(h, p) : x # y => RemoveUnderscores(x) # RemoveUnderscores(y)

\* C10: no entry of a flat graph refers to its own key, and every occurrence
\* of a re-used sub-graph has its own entries - here for the graphs whose
\* process ids do not differ only by underscores.
C10_NoSelfReference ==
    (FlattenedNested /\ NamesApart(heap, builders[ret.b])) =>
        /\ \A key \in DOMAIN ret.value.g :
              \A r \in RefsOf(ret.value.g[key].arguments) : r.from_node # KeyP(key)
        /\ Len(AllKeys(ret.value.g)) = Occurrences(heap, builders[ret.b])

====
